---- MODULE Spec2Model ----
(***************************************************************************)
(* Model of src/app.py: the Dash page of the NPV calculator.               *)
(*                                                                         *)
(* The page holds three form fields (discount-rate, initial-investment,    *)
(* cash-flows), two buttons and three outputs.  Two callbacks run on the   *)
(* server: reset_cash_flows and calculate_npv.                             *)
(*                                                                         *)
(* Numbers.  Python's float is IEEE-754 binary64: a 53-bit significand,    *)
(* round-to-nearest-even, gradual underflow, +-inf and nan.  The model     *)
(* keeps exactly that arithmetic but with a significand of Precision bits, *)
(* a smallest positive value of 2^-FracBits and a largest binade of        *)
(* TopShift.  A finite float is the integer number of quanta it holds      *)
(* (value = k / Unit); Inf, -Inf and NaN are integers outside the finite   *)
(* range.  Signed zero is not distinguished (-0.0 == 0.0 in every          *)
(* comparison the program makes).                                          *)
(*                                                                         *)
(* Text.  A Python str is a sequence of one-character strings.  A value    *)
(* that may be None is a sequence of length 0 (None) or 1 (the value).     *)
(***************************************************************************)
EXTENDS Integers, Sequences, FiniteSets, TLC

(***************************************************************************)
(* Bounds of the floating-point format and of the inputs.                  *)
(***************************************************************************)
Precision == 4
FracBits == 4
TopShift == 15

RECURSIVE Pow2(_)
Pow2(n) == IF n <= 0 THEN 1 ELSE 2 * Pow2(n - 1)

RECURSIVE IntPow(_, _)
IntPow(b, n) == IF n <= 0 THEN 1 ELSE b * IntPow(b, n - 1)

RECURSIVE BitLen(_)
BitLen(a) == IF a <= 0 THEN 0 ELSE 1 + BitLen(a \div 2)

Abs(x) == IF x < 0 THEN -x ELSE x

Unit == Pow2(FracBits)
MaxFinite == (Pow2(Precision) - 1) * Pow2(TopShift)
Inf == MaxFinite + 1
NaN == MaxFinite + 2

None == << >>
Some(x) == << x >>

IsFinite(x) == x # NaN /\ x # Inf /\ x # -Inf

\* spacing of the floats around magnitude a
Ulp(a) == Pow2(BitLen(a) - Precision)

\* the integer k is a value of the format
Representable(k) == Abs(k) <= MaxFinite /\ Abs(k) % Ulp(Abs(k)) = 0

\* n/d quanta (d > 0) rounded to the nearest float, ties to the even
\* significand; a result beyond MaxFinite is an infinity
RoundQ(n, d) ==
    LET s == IF n < 0 THEN -1 ELSE 1
        a == Abs(n)
        q == a \div d
        r == a % d
        u == Ulp(q)
        lo == (q \div u) * u
        hi == lo + u
        lhs == 2 * ((q - lo) * d + r)
        rhs == u * d
        res == IF lhs < rhs THEN lo
               ELSE IF lhs > rhs THEN hi
               ELSE IF (lo \div u) % 2 = 0 THEN lo ELSE hi
    IN  IF q > 2 * MaxFinite \/ res > MaxFinite THEN s * Inf ELSE s * res

FNeg(a) == IF a = NaN THEN NaN ELSE -a

\* a + b
FAdd(a, b) ==
    IF a = NaN \/ b = NaN THEN NaN
    ELSE IF ~IsFinite(a) /\ ~IsFinite(b) THEN (IF a = b THEN a ELSE NaN)
    ELSE IF ~IsFinite(a) THEN a
    ELSE IF ~IsFinite(b) THEN b
    ELSE RoundQ(a + b, 1)

FSub(a, b) == FAdd(a, FNeg(b))

\* a / b for a divisor b that is finite and not zero
FDiv(a, b) ==
    IF a = NaN THEN NaN
    ELSE IF ~IsFinite(a) THEN (IF b < 0 THEN -a ELSE a)
    ELSE IF b < 0 THEN RoundQ(-(a * Unit), -b)
    ELSE RoundQ(a * Unit, b)

\* a / n for a finite a and a positive int n that the format of the program
\* holds exactly (100 in discount_rate / 100)
FDivInt(a, n) == RoundQ(a, n)

FLt(a, b) == a # NaN /\ b # NaN /\ a < b
FGt(a, b) == a # NaN /\ b # NaN /\ a > b
FGe(a, b) == a # NaN /\ b # NaN /\ a >= b
FAbs(a) == IF a = NaN THEN NaN ELSE Abs(a)

RECURSIVE OddPart(_)
OddPart(k) == IF k = 0 \/ k % 2 = 1 THEN k ELSE OddPart(k \div 2)

RECURSIVE TwoExp(_)
TwoExp(k) == IF k = 0 \/ k % 2 = 1 THEN 0 ELSE 1 + TwoExp(k \div 2)

\* b ** n for a finite b >= 0 and an int n >= 1, correctly rounded; Inf
\* stands for the range error that float.__pow__ turns into OverflowError
FPow(b, n) ==
    LET m == OddPart(b)
        e == TwoExp(b) * n - FracBits * (n - 1)
        mn == IntPow(m, n)
    IN  IF b = 0 THEN 0
        ELSE IF e >= 0
             THEN IF BitLen(mn) + e > Precision + TopShift + 1 THEN Inf
                  ELSE RoundQ(mn * Pow2(e), 1)
             ELSE RoundQ(mn, Pow2(-e))


(***************************************************************************)
(* Text: str.split, str.strip, float(str), str(int), str.join.             *)
(***************************************************************************)
Digits == << "0", "1", "2", "3", "4", "5", "6", "7", "8", "9" >>
IsDigit(c) == \E i \in 1..10 : Digits[i] = c
DigitVal(c) == (CHOOSE i \in 1..10 : Digits[i] = c) - 1

\* s.split(sep) for a one-character separator: never an empty list
RECURSIVE split(_, _)
split(s, sep) ==
    IF \A i \in 1..Len(s) : s[i] # sep THEN << s >>
    ELSE LET i == CHOOSE i \in 1..Len(s) :
                      s[i] = sep /\ \A j \in 1..(i - 1) : s[j] # sep
         IN  << SubSeq(s, 1, i - 1) >> \o split(SubSeq(s, i + 1, Len(s)), sep)

RECURSIVE lstrip(_)
lstrip(s) == IF s # << >> /\ Head(s) = " " THEN lstrip(Tail(s)) ELSE s

RECURSIVE rstrip(_)
rstrip(s) ==
    IF s # << >> /\ s[Len(s)] = " " THEN rstrip(SubSeq(s, 1, Len(s) - 1)) ELSE s

strip(s) == rstrip(lstrip(s))

RECURSIVE DigitsValue(_)
DigitsValue(ds) ==
    IF ds = << >> THEN 0
    ELSE 10 * DigitsValue(SubSeq(ds, 1, Len(ds) - 1)) + DigitVal(ds[Len(ds)])

\* float(s): Some(value), or None for ValueError.  Accepted over the
\* characters of the model: surrounding blanks, an optional sign, then
\* "inf", "nan", or decimal digits with at most one point and at least one
\* digit; the decimal value is rounded to the nearest float.
float(s) ==
    LET t == strip(s)
        signed == t # << >> /\ Head(t) \in {"+", "-"}
        sgn == IF signed /\ Head(t) = "-" THEN -1 ELSE 1
        body == IF signed THEN Tail(t) ELSE t
        points == {i \in 1..Len(body) : body[i] = "."}
        decimal == /\ \A i \in 1..Len(body) : IsDigit(body[i]) \/ body[i] = "."
                   /\ Cardinality(points) <= 1
                   /\ \E i \in 1..Len(body) : IsDigit(body[i])
        ds == SelectSeq(body, IsDigit)
        fd == IF points = {} THEN 0 ELSE Len(body) - (CHOOSE i \in points : TRUE)
    IN  IF body = << "i", "n", "f" >> THEN Some(sgn * Inf)
        ELSE IF body = << "n", "a", "n" >> THEN Some(NaN)
        ELSE IF decimal THEN Some(sgn * RoundQ(DigitsValue(ds) * Unit, IntPow(10, fd)))
        ELSE None

\* str(n) for an int n >= 0
RECURSIVE str(_)
str(n) == IF n < 10 THEN << Digits[n + 1] >>
          ELSE str(n \div 10) \o << Digits[(n % 10) + 1] >>

\* sep.join(parts)
RECURSIVE join(_, _)
join(sep, parts) ==
    IF parts = << >> THEN << >>
    ELSE IF Len(parts) = 1 THEN parts[1]
    ELSE parts[1] \o sep \o join(sep, Tail(parts))

(***************************************************************************)
(* sum(values): the builtin adds left to right from the int 0.  Up to      *)
(* CPython 3.11 every addition is a plain float addition; from 3.12 on the *)
(* float loop is Neumaier's compensated summation (Python/bltinmodule.c).  *)
(* Which one runs depends on the interpreter the app is started with.      *)
(***************************************************************************)
SumImpls == {"plain", "compensated"}

RECURSIVE SumPlain(_, _)
SumPlain(values, acc) ==
    IF values = << >> THEN acc
    ELSE SumPlain(Tail(values), FAdd(acc, Head(values)))

RECURSIVE SumNeumaier(_, _, _)
SumNeumaier(values, f_result, c) ==
    IF values = << >>
    THEN IF c # 0 /\ IsFinite(c) THEN FAdd(f_result, c) ELSE f_result
    ELSE LET x == Head(values)
             t == FAdd(f_result, x)
             d == IF FGe(FAbs(f_result), FAbs(x))
                  THEN FAdd(FSub(f_result, t), x)
                  ELSE FAdd(FSub(x, t), f_result)
         IN  SumNeumaier(Tail(values), t, FAdd(c, d))

sum(impl, values) ==
    IF values = << >> THEN 0
    ELSE IF impl = "plain" THEN SumPlain(values, 0)
    ELSE SumNeumaier(Tail(values), FAdd(0, Head(values)), 0)


(***************************************************************************)
(* Module-level values of app.py.                                          *)
(***************************************************************************)
NumFlowsDefault == 5
RandLow == 500
RandHigh == 5000

\* the literals 10.0 and 5000.0 as floats of the format
initial_discount_rate == RoundQ(10 * Unit, 1)
initial_investment_default == RoundQ(5000 * Unit, 1)

\* randint drawing from a range that starts one too low
randint_LowerOff(a, b) == {n \in (a - 1)..b : n = a - 1 \/ n = b}

\* random.randint(a, b): any int of a..b; the model draws the two ends
randint(a, b) == {n \in a..b : n = a \/ n = b}

\* every list generate_random_cash_flows(num_flows) can return
generate_random_cash_flows(num_flows) == [1..num_flows -> randint(RandLow, RandHigh)]

\* ', '.join(map(str, flows))
FormatFlows(flows) == join(<< ",", " " >>, [i \in 1..Len(flows) |-> str(flows[i])])

\* the alert texts, without their accents
MsgRate == "Por favor, ingresa una tasa de descuento valida (no negativa)."
MsgInvestment == "Por favor, ingresa una inversion inicial valida (no negativa)."
MsgAtLeastOne == "Por favor, ingresa al menos un flujo de caja."
MsgCashFlows == "Por favor, ingresa flujos de caja validos separados por comas."
MsgViable == "El proyecto es viable. VPN = "
MsgNotViable == "El proyecto no es viable. VPN = "

\* go.Figure() and the two charts; a figure is its title and its one trace
empty_figure == [title |-> "", x |-> << >>, y |-> << >>]

\* dbc.Alert(text, color=...); a verdict keeps the npv it prints after its
\* text (the two-decimal rendering of f'{npv:,.2f}' is not spelled out)
Alert(text, value, color) == [text |-> text, npv |-> value, color |-> color]

(***************************************************************************)
(* reset_cash_flows(n_clicks): the set of its possible outcomes.           *)
(***************************************************************************)
Truthy(n_clicks) == n_clicks # None /\ n_clicks[1] # 0

\* every text ', '.join(map(str, generate_random_cash_flows())) can be
RandomFlowTexts ==
    {FormatFlows(random_flows) : random_flows \in generate_random_cash_flows(NumFlowsDefault)}

reset_cash_flows(n_clicks) ==
    IF Truthy(n_clicks)
    THEN {[kind |-> "return", value |-> text] : text \in RandomFlowTexts}
    ELSE {[kind |-> "PreventUpdate", value |-> << >>]}

(***************************************************************************)
(* calculate_npv, in the order of its statements.                          *)
(***************************************************************************)
\* [float(c.strip()) for c in cash_flows.split(',')]
ParseCashFlows(text) ==
    LET tokens == split(text, ",")
    IN  [i \in 1..Len(tokens) |-> float(strip(tokens[i]))]

Checked(exc, error_message, cash_flows_list) ==
    [exc |-> exc, error_message |-> error_message, cash_flows_list |-> cash_flows_list]

\* the validation chain with the investment checked before the rate
Validate_InvestmentFirst(discount_rate, initial_investment, cash_flows) ==
    IF initial_investment = None \/ FLt(initial_investment[1], 0)
    THEN Checked("", Some(MsgInvestment), << >>)
    ELSE IF discount_rate = None \/ FLt(discount_rate[1], 0)
    THEN Checked("", Some(MsgRate), << >>)
    ELSE IF cash_flows = None
    THEN Checked("AttributeError", None, << >>)
    ELSE LET parsed == ParseCashFlows(cash_flows[1])
         IN  IF \E i \in 1..Len(parsed) : parsed[i] = None
             THEN Checked("", Some(MsgCashFlows), << >>)
             ELSE Checked("", None, [i \in 1..Len(parsed) |-> parsed[i][1]])

\* the validation chain: exc is the exception that leaves the try block
\* uncaught ("" when none does)
Validate(discount_rate, initial_investment, cash_flows) ==
    IF discount_rate = None \/ FLt(discount_rate[1], 0)
    THEN Checked("", Some(MsgRate), << >>)
    ELSE IF initial_investment = None \/ FLt(initial_investment[1], 0)
    THEN Checked("", Some(MsgInvestment), << >>)
    ELSE IF cash_flows = None
    THEN Checked("AttributeError", None, << >>)
    ELSE LET parsed == ParseCashFlows(cash_flows[1])
         IN  IF \E i \in 1..Len(parsed) : parsed[i] = None
             THEN Checked("", Some(MsgCashFlows), << >>)
             ELSE IF Len(parsed) = 0
             THEN Checked("", Some(MsgAtLeastOne), << >>)
             ELSE Checked("", None, [i \in 1..Len(parsed) |-> parsed[i][1]])

\* the divisor with the exponent i of the loop instead of i + 1
Divisor_ZeroBased(discount_rate_decimal, period) ==
    FPow(FAdd(Unit, discount_rate_decimal), period - 1)

\* (1 + discount_rate_decimal) ** (i + 1), for the 1-based period
Divisor(discount_rate_decimal, period) == FPow(FAdd(Unit, discount_rate_decimal), period)

\* npv starting from the investment instead of its negation
StartNpv_Positive(initial_investment) == initial_investment

\* npv before the loop
StartNpv(initial_investment) == FNeg(initial_investment)

Looped(exc, discounted_cash_flows, npv) ==
    [exc |-> exc, discounted_cash_flows |-> discounted_cash_flows, npv |-> npv]

\* for i, cash_flow in enumerate(cash_flows_list): period is i + 1
RECURSIVE DiscountLoop(_, _, _, _, _)
DiscountLoop(cash_flows_list, discount_rate_decimal, period, discounted_cash_flows, npv) ==
    IF period > Len(cash_flows_list) THEN Looped("", discounted_cash_flows, npv)
    ELSE LET divisor == Divisor(discount_rate_decimal, period)
         IN  IF divisor = Inf THEN Looped("OverflowError", discounted_cash_flows, npv)
             ELSE IF divisor = 0 THEN Looped("ZeroDivisionError", discounted_cash_flows, npv)
             ELSE LET discounted == FDiv(cash_flows_list[period], divisor)
                  IN  DiscountLoop(cash_flows_list, discount_rate_decimal, period + 1,
                                   Append(discounted_cash_flows, discounted),
                                   FAdd(npv, discounted))

Years(cash_flows_list) == [i \in 1..Len(cash_flows_list) |-> i]

\* the cumulative series without its period-0 entry
CumulativeCashFlows_NoStart(initial_investment, discounted_cash_flows) ==
    discounted_cash_flows

CumulativeCashFlows(initial_investment, discounted_cash_flows) ==
    << FNeg(initial_investment) >> \o discounted_cash_flows

CumulativeValues(impl, cumulative_cash_flows) ==
    [i \in 1..Len(cumulative_cash_flows) |-> sum(impl, SubSeq(cumulative_cash_flows, 1, i))]

\* the verdict with zero counted as viable
ViabilityAlert_ZeroViable(npv) ==
    IF FGe(npv, 0) THEN Alert(MsgViable, npv, "success")
    ELSE Alert(MsgNotViable, npv, "danger")

ViabilityAlert(npv) ==
    IF FGt(npv, 0) THEN Alert(MsgViable, npv, "success")
    ELSE Alert(MsgNotViable, npv, "danger")

Outcome(kind, exc, error_message, cash_flows_list, discounted_cash_flows, npv, bar, line, alert) ==
    [kind |-> kind, exc |-> exc, error_message |-> error_message,
     cash_flows_list |-> cash_flows_list,
     discounted_cash_flows |-> discounted_cash_flows, npv |-> npv,
     bar_chart |-> bar, line_chart |-> line, viability |-> alert]

NoAlert == Alert("", 0, "")

calculate_npv(impl, n_clicks, discount_rate, initial_investment, cash_flows) ==
    IF n_clicks = None
    THEN Outcome("PreventUpdate", "", None, << >>, << >>, 0, empty_figure, empty_figure, NoAlert)
    ELSE
    LET v == Validate(discount_rate, initial_investment, cash_flows)
    IN  IF v.exc # ""
        THEN Outcome("raise", v.exc, None, << >>, << >>, 0, empty_figure, empty_figure, NoAlert)
        ELSE IF v.error_message # None
        THEN Outcome("return", "", v.error_message, << >>, << >>, 0,
                     empty_figure, empty_figure, Alert(v.error_message[1], 0, "danger"))
        ELSE
        LET discount_rate_decimal == FDivInt(discount_rate[1], 100)
            loop == DiscountLoop(v.cash_flows_list, discount_rate_decimal, 1, << >>,
                                 StartNpv(initial_investment[1]))
            years == Years(v.cash_flows_list)
            cumulative_cash_flows ==
                CumulativeCashFlows(initial_investment[1], loop.discounted_cash_flows)
            cumulative_values == CumulativeValues(impl, cumulative_cash_flows)
        IN  IF loop.exc # ""
            THEN Outcome("raise", loop.exc, None, v.cash_flows_list,
                         loop.discounted_cash_flows, loop.npv,
                         empty_figure, empty_figure, NoAlert)
            ELSE Outcome("return", "", None, v.cash_flows_list,
                         loop.discounted_cash_flows, loop.npv,
                         [title |-> "Flujos de Caja Anuales",
                          x |-> years, y |-> v.cash_flows_list],
                         [title |-> "Flujo de Caja Acumulado con Descuento",
                          x |-> << 0 >> \o years, y |-> cumulative_values],
                         ViabilityAlert(loop.npv))


(***************************************************************************)
(* The page.                                                               *)
(***************************************************************************)
VARIABLES
    discount_rate,        \* value of the 'discount-rate' input: None or a float
    initial_investment,   \* value of the 'initial-investment' input
    cash_flows,           \* value of the 'cash-flows' input: None or a str
    calculate_btn,        \* n_clicks of 'calculate-btn': None or an int
    reset_btn,            \* n_clicks of 'reset-btn'
    bar_chart,            \* figure of 'cash-flows-bar-chart': None until set
    line_chart,           \* figure of 'cumulative-cash-flow-line-chart'
    viability,            \* children of 'viability-message'
    sum_impl,             \* which builtin sum the interpreter has
    pending,              \* callbacks whose page-load invocation is still due
    call                  \* the last callback invocation and how it ended

vars == << discount_rate, initial_investment, cash_flows, calculate_btn, reset_btn,
           bar_chart, line_chart, viability, sum_impl, pending, call >>

MaxClicks == 2
MaxTokens == 2

Clicks(n_clicks) == IF n_clicks = None THEN 0 ELSE n_clicks[1]

Invocation(fn, n_clicks, rate, investment, flows, out) ==
    [fn |-> fn, n_clicks |-> n_clicks, discount_rate |-> rate,
     initial_investment |-> investment, cash_flows |-> flows, out |-> out]

NoOutcome == Outcome("", "", None, << >>, << >>, 0, empty_figure, empty_figure, NoAlert)

Callbacks == {"reset_cash_flows", "calculate_npv"}

\* the state once the module has been imported and the layout built
Init ==
    /\ discount_rate = Some(initial_discount_rate)
    /\ initial_investment = Some(initial_investment_default)
    /\ \E initial_cash_flows \in RandomFlowTexts : cash_flows = Some(initial_cash_flows)
    /\ calculate_btn = None
    /\ reset_btn = None
    /\ bar_chart = None
    /\ line_chart = None
    /\ viability = None
    /\ sum_impl \in SumImpls
    /\ pending = Callbacks
    /\ call = Invocation("", None, None, None, None, NoOutcome)

\* Dash runs reset_cash_flows with the State values and writes its Output
RunReset(n_clicks) ==
    \E out \in reset_cash_flows(n_clicks) :
        /\ cash_flows' = IF out.kind = "return" THEN Some(out.value) ELSE cash_flows
        /\ call' = Invocation("reset_cash_flows", n_clicks, discount_rate,
                              initial_investment, cash_flows,
                              [NoOutcome EXCEPT !.kind = out.kind])
        /\ UNCHANGED << discount_rate, initial_investment, bar_chart, line_chart,
                        viability, sum_impl >>

\* Dash runs calculate_npv with the State values and writes its Outputs; an
\* invocation that raises writes none
RunCalculate(n_clicks) ==
    /\ call' = Invocation("calculate_npv", n_clicks, discount_rate,
                          initial_investment, cash_flows,
                          calculate_npv(sum_impl, n_clicks, discount_rate,
                                        initial_investment, cash_flows))
    /\ IF call'.out.kind = "return"
       THEN /\ bar_chart' = Some(call'.out.bar_chart)
            /\ line_chart' = Some(call'.out.line_chart)
            /\ viability' = Some(call'.out.viability)
       ELSE UNCHANGED << bar_chart, line_chart, viability >>
    /\ UNCHANGED << discount_rate, initial_investment, cash_flows, sum_impl >>

\* page load: each callback is invoked once before any click, with the
\* n_clicks of its button, which the layout leaves unset
InitialReset ==
    /\ "reset_cash_flows" \in pending
    /\ pending' = pending \ {"reset_cash_flows"}
    /\ RunReset(reset_btn)
    /\ UNCHANGED << calculate_btn, reset_btn >>

InitialCalculate ==
    /\ "calculate_npv" \in pending
    /\ pending' = pending \ {"calculate_npv"}
    /\ RunCalculate(calculate_btn)
    /\ UNCHANGED << calculate_btn, reset_btn >>

ClickReset ==
    /\ pending = {}
    /\ Clicks(calculate_btn) + Clicks(reset_btn) < MaxClicks
    /\ reset_btn' = Some(Clicks(reset_btn) + 1)
    /\ RunReset(reset_btn')
    /\ UNCHANGED << calculate_btn, pending >>

ClickCalculate ==
    /\ pending = {}
    /\ Clicks(calculate_btn) + Clicks(reset_btn) < MaxClicks
    /\ calculate_btn' = Some(Clicks(calculate_btn) + 1)
    /\ RunCalculate(calculate_btn')
    /\ UNCHANGED << reset_btn, pending >>

Next == InitialReset \/ InitialCalculate \/ ClickReset \/ ClickCalculate

Spec == Init /\ [][Next]_vars

(***************************************************************************)
(* calculate_npv as a function of what the user has typed: the form holds  *)
(* any rate, investment and cash-flow text of the input sets and only the  *)
(* Calculate button is used.                                               *)
(***************************************************************************)
RateInputs ==
    {None, Some(-Unit), Some(0), Some(1), Some(initial_discount_rate),
     Some(100 * Unit), Some(MaxFinite)}

InvestmentInputs ==
    {None, Some(-Unit), Some(0), Some(1), Some(Unit), Some(16 * Unit),
     Some(initial_investment_default)}

Tokens ==
    { << >>, << "a", "b", "c" >>, << "i", "n", "f" >>, << "n", "a", "n" >>,
      << "1" >>, << " ", "8", " " >>, << "-", "8" >>, << ".", "5" >>, << ".", "1" >> }

TokenLists == UNION {[1..n -> Tokens] : n \in 1..MaxTokens}

CashFlowInputs == {None} \cup {Some(join(<< "," >>, toks)) : toks \in TokenLists}

InitCalc ==
    /\ discount_rate \in RateInputs
    /\ initial_investment \in InvestmentInputs
    /\ cash_flows \in CashFlowInputs
    /\ calculate_btn = None
    /\ reset_btn = None
    /\ bar_chart = None
    /\ line_chart = None
    /\ viability = None
    /\ sum_impl \in SumImpls
    /\ pending = {"calculate_npv"}
    /\ call = Invocation("", None, None, None, None, NoOutcome)

NextCalc == InitialCalculate \/ ClickCalculate

SpecCalc == InitCalc /\ [][NextCalc]_vars

(***************************************************************************)
(* Properties.  They read the last invocation (call) and the outputs.      *)
(***************************************************************************)
\* the last invocation was calculate_npv with n_clicks not None
Clicked == call.fn = "calculate_npv" /\ call.n_clicks # None

RateMissingOrNegative ==
    call.discount_rate = None
        \/ (call.discount_rate[1] # NaN /\ call.discount_rate[1] < 0)

InvestmentMissingOrNegative ==
    call.initial_investment = None
        \/ (call.initial_investment[1] # NaN /\ call.initial_investment[1] < 0)

CashFlowMessages == {MsgCashFlows, MsgAtLeastOne}

\* the invocation returned two empty figures and a danger alert with text
ErrorTriple(text) ==
    /\ call.out.kind = "return"
    /\ call.out.bar_chart = empty_figure
    /\ call.out.line_chart = empty_figure
    /\ call.out.viability = Alert(text, 0, "danger")
    /\ bar_chart = Some(empty_figure)
    /\ line_chart = Some(empty_figure)
    /\ viability = Some(Alert(text, 0, "danger"))

\* the invocation reached the result branch: two charts and a verdict
ResultBranch ==
    /\ Clicked
    /\ call.out.kind = "return"
    /\ call.out.viability.text \in {MsgViable, MsgNotViable}

\* the tokens of the cash-flow text, each trimmed
TrimmedTokens(text) ==
    LET tokens == split(text, ",") IN [i \in 1..Len(tokens) |-> strip(tokens[i])]

\* every token is a number and none is an infinity or a nan
AllFiniteNumbers(text) ==
    \A i \in 1..Len(TrimmedTokens(text)) :
        /\ float(TrimmedTokens(text)[i]) # None
        /\ IsFinite(float(TrimmedTokens(text)[i])[1])

\* a valid CalculationInput was submitted
ValidInput ==
    /\ Clicked
    /\ ~RateMissingOrNegative
    /\ ~InvestmentMissingOrNegative
    /\ call.cash_flows # None
    /\ AllFiniteNumbers(call.cash_flows[1])

RECURSIVE ExactSum(_)
ExactSum(values) == IF values = << >> THEN 0 ELSE Head(values) + ExactSum(Tail(values))

\* C1: validation is short-circuit in the order rate, investment, cash
\* flows: a missing or negative rate always yields the rate message, else a
\* missing or negative investment yields the investment message, a
\* cash-flow message appears only when both are valid, and a failing
\* request carries exactly one message.
C1_ValidationOrder ==
    Clicked =>
        /\ RateMissingOrNegative => ErrorTriple(MsgRate)
        /\ (~RateMissingOrNegative /\ InvestmentMissingOrNegative)
               => ErrorTriple(MsgInvestment)
        /\ (call.out.kind = "return" /\ call.out.viability.text \in CashFlowMessages)
               => (~RateMissingOrNegative /\ ~InvestmentMissingOrNegative)
        /\ call.out.error_message # None
               => /\ Len(call.out.error_message) = 1
                  /\ ErrorTriple(call.out.error_message[1])

C1_Witness ==
    /\ Clicked
    /\ RateMissingOrNegative
    /\ InvestmentMissingOrNegative
    /\ call.cash_flows # None
    /\ ~AllFiniteNumbers(call.cash_flows[1])
    /\ viability = Some(Alert(MsgRate, 0, "danger"))

\* C2: with a valid rate and investment, the cash-flow error is reported
\* exactly when the text does not consist of one or more finite numbers.
C2_CashFlowsRejectedIffNotFinite ==
    (Clicked /\ ~RateMissingOrNegative /\ ~InvestmentMissingOrNegative
        /\ call.cash_flows # None)
    => ((call.out.kind = "return" /\ call.out.viability.text \in CashFlowMessages)
            <=> ~AllFiniteNumbers(call.cash_flows[1]))

\* C3: a clicked calculation never ends in an uncaught exception: it
\* returns a result or the error triple.
C3_NoUncaughtException ==
    Clicked =>
        \/ ResultBranch
        \/ \E text \in {MsgRate, MsgInvestment} \cup CashFlowMessages : ErrorTriple(text)

\* C4: for every valid input the last cumulative value equals npv.
C4_LastCumulativeIsNpv ==
    (ValidInput /\ ResultBranch) =>
        LET y == line_chart[1].y
        IN  y[Len(y)] # NaN /\ y[Len(y)] = call.out.npv

\* C5: for n cash flows the discounted series has n entries, the cumulative
\* series n + 1 entries against the periods 0..n, and its first entry is
\* -initial_investment.
C5_SeriesShape ==
    ResultBranch =>
        LET n == Len(split(call.cash_flows[1], ","))
        IN  /\ n >= 1
            /\ Len(call.out.discounted_cash_flows) = n
            /\ Len(bar_chart[1].x) = n
            /\ Len(bar_chart[1].y) = n
            /\ Len(line_chart[1].y) = n + 1
            /\ line_chart[1].x = [i \in 1..(n + 1) |-> i - 1]
            /\ line_chart[1].y[1] = 0 - call.initial_investment[1]

C5_Witness ==
    /\ ResultBranch
    /\ Len(line_chart[1].y) = 3
    /\ call.initial_investment[1] > 0

\* C6: at rate 0 every discounted cash flow equals its cash flow and npv
\* equals sum(cash flows) - investment exactly.
C6_ZeroRateExact ==
    (ValidInput /\ ResultBranch /\ call.discount_rate[1] = 0) =>
        /\ call.out.discounted_cash_flows = call.out.cash_flows_list
        /\ call.out.npv = ExactSum(call.out.cash_flows_list) - call.initial_investment[1]

\* every running total -investment + c_1 + ... + c_i is a float
PartialSumsExact ==
    \A i \in 1..Len(call.out.cash_flows_list) :
        Representable(ExactSum(SubSeq(call.out.cash_flows_list, 1, i))
                          - call.initial_investment[1])

\* C6 as amended: at rate 0 every discounted cash flow equals its cash
\* flow, and npv equals sum(cash flows) - investment whenever no running
\* total of the accumulation has to be rounded.
C6_ZeroRateUnrounded ==
    (ValidInput /\ ResultBranch /\ call.discount_rate[1] = 0) =>
        /\ call.out.discounted_cash_flows = call.out.cash_flows_list
        /\ PartialSumsExact =>
               call.out.npv = ExactSum(call.out.cash_flows_list)
                                  - call.initial_investment[1]

C6_Witness ==
    /\ ValidInput
    /\ ResultBranch
    /\ call.discount_rate[1] = 0
    /\ Len(call.out.cash_flows_list) = 2
    /\ call.initial_investment[1] > 0
    /\ PartialSumsExact
    /\ call.out.npv < 0

\* C7: the project is reported viable (success) iff npv > 0; zero, negative
\* and nan npv are reported not viable (danger).
C7_ViableIffPositive ==
    ResultBranch =>
        LET positive == call.out.npv # NaN /\ call.out.npv > 0
        IN  /\ viability[1].npv = call.out.npv
            /\ positive => (viability[1].color = "success" /\ viability[1].text = MsgViable)
            /\ ~positive => (viability[1].color = "danger" /\ viability[1].text = MsgNotViable)

C7_Witness ==
    /\ ResultBranch
    /\ call.out.npv = 0
    /\ viability[1].color = "danger"

PositiveRate == ~RateMissingOrNegative /\ call.discount_rate[1] > 0

\* C8: for a rate above 0 every positive cash flow is discounted to
\* strictly less than itself, and equal positive cash flows of consecutive
\* periods are discounted to strictly decreasing values.
C8_StrictDiscount ==
    (ValidInput /\ ResultBranch /\ PositiveRate) =>
        LET c == call.out.cash_flows_list
            d == call.out.discounted_cash_flows
        IN  /\ \A i \in 1..Len(c) : c[i] > 0 => d[i] < c[i]
            /\ \A i \in 1..(Len(c) - 1) : (c[i] > 0 /\ c[i + 1] = c[i]) => d[i + 1] < d[i]

\* the float 1 + r is above 1
RateSurvivesAddition == FAdd(Unit, FDivInt(call.discount_rate[1], 100)) > Unit

\* a float with a full significand (not subnormal)
Normal(k) == k >= Pow2(Precision - 1)

\* C8 as amended: for a rate above 0 every positive cash flow is discounted
\* to at most itself, and to strictly less when the float 1 + r exceeds 1
\* and the cash flow is a normal float; equal positive cash flows of
\* consecutive periods are discounted to non-increasing values.
C8_WeakDiscount ==
    (ValidInput /\ ResultBranch /\ PositiveRate) =>
        LET c == call.out.cash_flows_list
            d == call.out.discounted_cash_flows
        IN  /\ \A i \in 1..Len(c) : c[i] > 0 =>
                   /\ d[i] <= c[i]
                   /\ (RateSurvivesAddition /\ Normal(c[i])) => d[i] < c[i]
            /\ \A i \in 1..(Len(c) - 1) : (c[i] > 0 /\ c[i + 1] = c[i]) => d[i + 1] <= d[i]

C8_Witness ==
    /\ ValidInput
    /\ ResultBranch
    /\ PositiveRate
    /\ RateSurvivesAddition
    /\ Len(call.out.cash_flows_list) = 2
    /\ call.out.cash_flows_list[1] > 0
    /\ call.out.cash_flows_list[2] = call.out.cash_flows_list[1]
    /\ call.out.discounted_cash_flows[1] < call.out.cash_flows_list[1]
    /\ call.out.discounted_cash_flows[2] < call.out.discounted_cash_flows[1]

\* C9: every input that passed validation reaches the result branch.
C9_ValidInputYieldsResult == ValidInput => ResultBranch

\* the 'cash-flows' text is 5 integers of 500..5000 separated by commas
FiveRandomFlows(text) ==
    LET tokens == TrimmedTokens(text)
    IN  /\ Len(tokens) = 5
        /\ \A i \in 1..5 :
               /\ tokens[i] # << >>
               /\ \A j \in 1..Len(tokens[i]) : IsDigit(tokens[i][j])
               /\ DigitsValue(tokens[i]) \in 500..5000

ResetRan == call'.fn = "reset_cash_flows" /\ call' # call

\* C10: a reset with a non-zero click count replaces the cash-flow text by
\* 5 integers of 500..5000 and changes no other field or output; a reset
\* without a click changes nothing; a calculation after a reset with valid
\* rate and investment never reports a cash-flow error.
C10_Reset ==
    /\ [][ResetRan =>
            /\ UNCHANGED << discount_rate, initial_investment, bar_chart,
                            line_chart, viability >>
            /\ Truthy(call'.n_clicks) =>
                   (cash_flows' # None /\ FiveRandomFlows(cash_flows'[1]))
            /\ ~Truthy(call'.n_clicks) => UNCHANGED cash_flows]_vars
    /\ [](/\ \A n_clicks \in {None, Some(0)} :
                  \A out \in reset_cash_flows(n_clicks) : out.kind = "PreventUpdate"
          /\ (Clicked /\ reset_btn # None /\ ~RateMissingOrNegative
                  /\ ~InvestmentMissingOrNegative)
                => ~(call.out.kind = "return"
                       /\ call.out.viability.text \in CashFlowMessages))

C10_Witness ==
    /\ call.fn = "reset_cash_flows"
    /\ Truthy(call.n_clicks)
    /\ bar_chart # None
    /\ cash_flows # call.cash_flows
====
